---- MODULE Spec2Model ----
(***************************************************************************)
(* Model of tools/package.py: the script that derives a submission name    *)
(* from the current working directory, rolls the *.dfy files of that       *)
(* directory into <name>.tgz with tar, and tells the user what to upload.  *)
(*                                                                         *)
(* Strings are sequences of one-character strings, so that splitting,      *)
(* substring search, pattern matching and concatenation are computed and   *)
(* not assumed.  The platform is POSIX: os.sep is "/".                     *)
(***************************************************************************)
EXTENDS Integers, Sequences, FiniteSets, TLC

(***************************************************************************)
(* Bounds of the model.                                                    *)
(***************************************************************************)
MaxSegs == 2

MaxRuns == 2

(***************************************************************************)
(* String literals of the script.                                          *)
(***************************************************************************)
Sep == "/"

NeedleChapter ==
    <<"c", "h", "a", "p", "t", "e", "r">>

NeedleProject ==
    <<"p", "r", "o", "j", "e", "c", "t">>

TgzSuffix ==
    <<".", "t", "g", "z">>

PatternStar ==
    <<"*">>

\* the pattern handed to glob.glob
Pattern ==
    <<"*", ".", "d", "f", "y">>

ArgTar ==
    <<"t", "a", "r">>

ArgCzf ==
    <<"-", "c", "z", "f">>

MsgPrefix ==
    <<"P", "l", "e", "a", "s", "e", " ", "u", "p", "l", "o", "a", "d", " ">>

MsgSuffix ==
    <<" ", "t", "o", " ", "t", "h", "e", " ", "s", "u", "b", "m", "i", "s", "s",
      "i", "o", "n", " ", "s", "i", "t", "e", ".", "\n">>

Diagnostic ==
    <<"C", "a", "n", "n", "o", "t", " ", "d", "e", "t", "e", "r", "m", "i", "n",
      "e", " ", "c", "h", "a", "p", "t", "e", "r", " ", "n", "a", "m", "e", " ",
      "f", "r", "o", "m", " ", "c", "u", "r", "r", "e", "n", "t", " ", "p", "a",
      "t", "h", ".", "\n">>

(***************************************************************************)
(* The inputs: directory names a working directory is made of, and the     *)
(* entries a working directory may hold.                                   *)
(***************************************************************************)
SegLab3 ==
    <<"l", "a", "b", "3">>

SegChapter3 ==
    <<"c", "h", "a", "p", "t", "e", "r", "3">>

SegProjector ==
    <<"p", "r", "o", "j", "e", "c", "t", "o", "r">>

SegMyChapter3Old ==
    <<"m", "y", "-", "c", "h", "a", "p", "t", "e", "r", "3", "-", "o", "l", "d">>

SegChapt ==
    <<"c", "h", "a", "p", "t">>

SegmentNames ==
    {SegLab3, SegChapter3, SegProjector, SegMyChapter3Old, SegChapt}

FileA ==
    <<"a", ".", "d", "f", "y">>

FileHidden ==
    <<".", "h", ".", "d", "f", "y">>

FileDash ==
    <<"-", "v", ".", "d", "f", "y">>

FileNotes ==
    <<"n", "o", "t", "e", "s", ".", "t", "x", "t">>

DirD ==
    <<"d", ".", "d", "f", "y">>

ChildX ==
    <<"x", ".", "t", "x", "t">>

EntryNames ==
    {FileA, FileHidden, FileDash, FileNotes, DirD}

IsDir(name) ==
    name = DirD

Children(name) ==
    IF name = DirD THEN {ChildX} ELSE {}

(***************************************************************************)
(* Library functions the script calls, computed as the library computes    *)
(* them.                                                                   *)
(***************************************************************************)
RECURSIVE Join(_, _)
Join(parts, sep) ==
    IF parts = <<>> THEN <<>>
    ELSE IF Len(parts) = 1 THEN parts[1]
    ELSE parts[1] \o <<sep>> \o Join(Tail(parts), sep)

\* os.getcwd(): an absolute path, "/" followed by the directory names.
GetCwd(segs) ==
    <<Sep>> \o Join(segs, Sep)

SplitWhole(s, sep) ==
    <<s>>

RECURSIVE SplitFrom(_, _, _)
SplitFrom(s, sep, cur) ==
    IF s = <<>> THEN <<cur>>
    ELSE IF s[1] = sep THEN <<cur>> \o SplitFrom(Tail(s), sep, <<>>)
    ELSE SplitFrom(Tail(s), sep, Append(cur, s[1]))

\* str.split(sep): "/a/b" gives <<"", "a", "b">>, "/" gives <<"", "">>.
Split(s, sep) ==
    SplitFrom(s, sep, <<>>)

RECURSIVE NormComps(_, _, _)
NormComps(comps, acc, initial) ==
    IF comps = <<>> THEN acc
    ELSE LET comp == comps[1]
             rest == Tail(comps)
         IN IF comp = <<>> \/ comp = <<".">>
            THEN NormComps(rest, acc, initial)
            ELSE IF \/ comp # <<".", ".">>
                    \/ (initial = 0 /\ acc = <<>>)
                    \/ (acc # <<>> /\ acc[Len(acc)] = <<".", ".">>)
                 THEN NormComps(rest, Append(acc, comp), initial)
                 ELSE IF acc # <<>>
                      THEN NormComps(rest, SubSeq(acc, 1, Len(acc) - 1), initial)
                      ELSE NormComps(rest, acc, initial)

\* os.path.normpath on POSIX.
NormPath(p) ==
    IF p = <<>> THEN <<".">>
    ELSE LET initial ==
                 IF p[1] # Sep THEN 0
                 ELSE IF Len(p) >= 2 /\ p[2] = Sep /\ ~(Len(p) >= 3 /\ p[3] = Sep)
                      THEN 2 ELSE 1
             joined == Join(NormComps(Split(p, Sep), <<>>, initial), Sep)
             res == [i \in 1..initial |-> Sep] \o joined
         IN IF res = <<>> THEN <<".">> ELSE res

StartsWith(needle, s) ==
    /\ Len(s) >= Len(needle)
    /\ SubSeq(s, 1, Len(needle)) = needle

\* needle in s
RECURSIVE InStr(_, _)
InStr(needle, s) ==
    IF Len(s) < Len(needle) THEN FALSE
    ELSE IF SubSeq(s, 1, Len(needle)) = needle THEN TRUE
    ELSE InStr(needle, Tail(s))

AnySegment(segment) ==
    TRUE

\* the condition of the list comprehension
SegmentSelected(segment) ==
    InStr(NeedleChapter, segment) \/ InStr(NeedleProject, segment)

\* the list comprehension
Comprehension(segs) ==
    SelectSeq(segs, SegmentSelected)

FirstOf(xs) ==
    xs[1]

\* xs[-1] of a non-empty list
LastOf(xs) ==
    xs[Len(xs)]

\* f"{chapter}.tgz"
PackageName(ch) ==
    ch \o TgzSuffix

\* fnmatch of a pattern made of literal characters and "*"
RECURSIVE FnMatch(_, _)
FnMatch(pat, name) ==
    IF pat = <<>> THEN name = <<>>
    ELSE IF pat[1] = "*"
         THEN FnMatch(Tail(pat), name) \/ (name # <<>> /\ FnMatch(pat, Tail(name)))
         ELSE name # <<>> /\ name[1] = pat[1] /\ FnMatch(Tail(pat), Tail(name))

NeverHidden(name) ==
    FALSE

\* glob._ishidden
IsHidden(name) ==
    name[1] = "."

\* glob.glob(pattern), as a set; glob gives no order
Glob(pat, listing) ==
    {n \in listing : FnMatch(pat, n) /\ (IsHidden(pat) \/ ~IsHidden(n))}

\* the orders in which a listing can be returned
Orderings(S) ==
    {f \in [1..Cardinality(S) -> S] : \A x \in S : \E i \in 1..Cardinality(S) : f[i] = x}

CmdWithoutName(name, files) ==
    <<ArgTar, ArgCzf>> \o files

\* ["tar", "-czf", package_name] + glob.glob("*.dfy")
CmdOf(name, files) ==
    <<ArgTar, ArgCzf, name>> \o files

\* f"Please upload {package_name} to the submission site.\n"
SuccessMessage(name) ==
    MsgPrefix \o name \o MsgSuffix

SysExitZero(n) ==
    0

\* the process status sys.exit(n) leaves
SysExitStatus(n) ==
    n % 256

ExitWithReturnCode(rc) ==
    rc

\* the status of a script that runs off its end; the return code of
\* subprocess.call is dropped
ExitAtEnd(rc) ==
    0

ReturnsAtOnce(childState) ==
    TRUE

\* subprocess.call returns once the child has exited
CallReturns(childState) ==
    childState = "exited"

(***************************************************************************)
(* The archiving utility, GNU tar, as the script invokes it.               *)
(***************************************************************************)
\* the members tar stores for one operand: a directory is stored with
\* everything below it
TarMembersOf(name) ==
    IF IsDir(name)
    THEN {name \o <<Sep>>} \cup {name \o <<Sep>> \o c : c \in Children(name)}
    ELSE {name}

Operands(argv) ==
    SubSeq(argv, 4, Len(argv))

\* an operand that starts with "-" is read as options
HasOptionOperand(argv) ==
    \E i \in 4..Len(argv) : argv[i][1] = "-"

VARIABLES
    cwdSegs,      \* the directories on the way to the working directory
    entries,      \* names of the entries of the working directory
    archives,     \* archives tar has written there: name -> content
    runs,         \* number of runs started
    prev,         \* <<>> or <<summary of the previous run>>
    pc,           \* the line the script is at
    path,         \* path
    candidates,   \* value of the list comprehension
    chapter,      \* chapter
    package_name, \* package_name
    cmd,          \* cmd
    stdout,       \* lines written to sys.stdout
    stderr,       \* lines written to sys.stderr by the script
    uncaught,     \* exception that ended the script, reported by the interpreter
    exitStatus,   \* <<>> while running, <<status>> once exited
    spawned,      \* child processes started by this run
    child,        \* "none", "running", "exited"
    childStatus,  \* <<>> or <<exit status of tar>>
    tarMsgs       \* what tar wrote to the shared error stream

fsVars == <<cwdSegs, entries, archives>>

runVars == <<path, candidates, chapter, package_name, cmd>>

ioVars == <<stdout, stderr, uncaught, exitStatus>>

childVars == <<spawned, child, childStatus, tarMsgs>>

vars == <<cwdSegs, entries, archives, runs, prev, pc, path, candidates, chapter,
          package_name, cmd, stdout, stderr, uncaught, exitStatus, spawned,
          child, childStatus, tarMsgs>>

Paths ==
    UNION {[1..n -> SegmentNames] : n \in 0..MaxSegs}

\* everything glob can see in the working directory
Listing ==
    entries \cup DOMAIN archives

FreshRun ==
    /\ pc = "l12"
    /\ path = <<>>
    /\ candidates = <<>>
    /\ chapter = <<>>
    /\ package_name = <<>>
    /\ cmd = <<>>
    /\ stdout = <<>>
    /\ stderr = <<>>
    /\ uncaught = "none"
    /\ exitStatus = <<>>
    /\ spawned = 0
    /\ child = "none"
    /\ childStatus = <<>>
    /\ tarMsgs = <<>>

Init ==
    /\ cwdSegs \in Paths
    /\ entries \in SUBSET EntryNames
    /\ archives = <<>>
    /\ runs = 1
    /\ prev = <<>>
    /\ FreshRun

\* line 12
Normalize ==
    /\ pc = "l12"
    /\ path' = NormPath(GetCwd(cwdSegs))
    /\ pc' = "l14"
    /\ UNCHANGED <<fsVars, runs, prev, candidates, chapter, package_name, cmd,
                   ioVars, childVars>>

\* lines 13-18: the list comprehension and its last element; IndexError when
\* the list is empty
SelectChapter ==
    /\ pc = "l14"
    /\ LET selected == Comprehension(Split(path, Sep))
       IN /\ candidates' = selected
          /\ IF selected = <<>>
             THEN pc' = "l20" /\ UNCHANGED chapter
             ELSE pc' = "l22" /\ chapter' = LastOf(selected)
    /\ UNCHANGED <<fsVars, runs, prev, path, package_name, cmd, ioVars, childVars>>

\* lines 19-21
ExceptIndexError ==
    /\ pc = "l20"
    /\ stderr' = Append(stderr, Diagnostic)
    /\ exitStatus' = <<SysExitStatus(-1)>>
    /\ pc' = "exited"
    /\ UNCHANGED <<fsVars, runs, prev, runVars, stdout, uncaught, childVars>>

\* lines 22-23
BuildCmd ==
    /\ pc = "l22"
    /\ package_name' = PackageName(chapter)
    /\ \E files \in Orderings(Glob(Pattern, Listing)) :
          cmd' = CmdOf(PackageName(chapter), files)
    /\ pc' = "l24"
    /\ UNCHANGED <<fsVars, runs, prev, path, candidates, chapter, ioVars, childVars>>

\* line 24, subprocess.call starts tar
Launch ==
    /\ pc = "l24"
    /\ spawned' = spawned + 1
    /\ child' = "running"
    /\ pc' = "l24wait"
    /\ UNCHANGED <<fsVars, runs, prev, runVars, ioVars, childStatus, tarMsgs>>

\* line 24, tar cannot be started (it is not on the PATH, or may not be
\* executed): subprocess.call raises an OSError such as FileNotFoundError,
\* nothing catches it, the interpreter reports it and exits with status 1
LaunchFails ==
    /\ pc = "l24"
    /\ uncaught' = "OSError"
    /\ exitStatus' = <<1>>
    /\ pc' = "exited"
    /\ UNCHANGED <<fsVars, runs, prev, runVars, stdout, stderr, childVars>>

\* the child: tar -czf <name> <operands>.  tar reads an operand that starts
\* with "-" as options and gives up on "-v.dfy" ("invalid option -- '.'")
\* before it touches the archive; it refuses an empty operand list; otherwise
\* it writes the archive, unless the file system stops it.
TarRun ==
    /\ child = "running"
    /\ child' = "exited"
    /\ IF HasOptionOperand(cmd)
       THEN /\ childStatus' = <<2>>
            /\ tarMsgs' = Append(tarMsgs, "invalid option")
            /\ UNCHANGED archives
       ELSE IF Operands(cmd) = <<>>
       THEN /\ childStatus' = <<2>>
            /\ tarMsgs' = Append(tarMsgs, "Cowardly refusing to create an empty archive")
            /\ UNCHANGED archives
       ELSE \E io \in {"ok", "cannot open", "cannot write"} :
              CASE io = "ok" ->
                     /\ childStatus' = <<0>>
                     /\ UNCHANGED tarMsgs
                     /\ archives' =
                          (cmd[3] :> [members |-> UNION {TarMembersOf(Operands(cmd)[i]) :
                                                          i \in 1..Len(Operands(cmd))},
                                      complete |-> TRUE]) @@ archives
                [] io = "cannot open" ->
                     /\ childStatus' = <<2>>
                     /\ tarMsgs' = Append(tarMsgs, "Cannot open")
                     /\ UNCHANGED archives
                [] io = "cannot write" ->
                     /\ childStatus' = <<2>>
                     /\ tarMsgs' = Append(tarMsgs, "Cannot write")
                     /\ archives' = (cmd[3] :> [members |-> {}, complete |-> FALSE])
                                       @@ archives
    /\ UNCHANGED <<cwdSegs, entries, runs, prev, pc, runVars, ioVars, spawned>>

\* line 24, subprocess.call returns
CallReturn ==
    /\ pc = "l24wait"
    /\ CallReturns(child)
    /\ pc' = "l25"
    /\ UNCHANGED <<fsVars, runs, prev, runVars, ioVars, childVars>>

\* line 25
PrintMessage ==
    /\ pc = "l25"
    /\ stdout' = Append(stdout, SuccessMessage(package_name))
    /\ pc' = "end"
    /\ UNCHANGED <<fsVars, runs, prev, runVars, stderr, uncaught, exitStatus, childVars>>

\* the script runs off its end
Finish ==
    /\ pc = "end"
    /\ exitStatus' = <<ExitAtEnd(IF childStatus = <<>> THEN 0 ELSE childStatus[1])>>
    /\ pc' = "exited"
    /\ UNCHANGED <<fsVars, runs, prev, runVars, stdout, stderr, uncaught, childVars>>

\* the user runs the tool again in the same directory
RunAgain ==
    /\ pc = "exited"
    /\ runs < MaxRuns
    /\ runs' = runs + 1
    /\ prev' = <<[derived  |-> candidates # <<>>,
                  operands |-> {cmd[i] : i \in 4..Len(cmd)},
                  tarOk    |-> childStatus = <<0>>,
                  content  |-> IF package_name \in DOMAIN archives
                               THEN <<archives[package_name]>> ELSE <<>>]>>
    /\ pc' = "l12"
    /\ path' = <<>>
    /\ candidates' = <<>>
    /\ chapter' = <<>>
    /\ package_name' = <<>>
    /\ cmd' = <<>>
    /\ stdout' = <<>>
    /\ stderr' = <<>>
    /\ uncaught' = "none"
    /\ exitStatus' = <<>>
    /\ spawned' = 0
    /\ child' = "none"
    /\ childStatus' = <<>>
    /\ tarMsgs' = <<>>
    /\ UNCHANGED fsVars

Next ==
    \/ Normalize
    \/ SelectChapter
    \/ ExceptIndexError
    \/ BuildCmd
    \/ Launch
    \/ LaunchFails
    \/ TarRun
    \/ CallReturn
    \/ PrintMessage
    \/ Finish
    \/ RunAgain

Spec == Init /\ [][Next]_vars

(***************************************************************************)
(* What the properties are stated in: the directory names the working      *)
(* directory was made of, and the names in it, read without the script's   *)
(* own splitting, searching and matching.                                  *)
(***************************************************************************)
HasInfix(needle, s) ==
    \E i \in 0..(Len(s) - Len(needle)) :
        \A k \in 1..Len(needle) : s[i + k] = needle[k]

IsCandidate(seg) ==
    HasInfix(NeedleChapter, seg) \/ HasInfix(NeedleProject, seg)

HasCandidate ==
    \E i \in 1..Len(cwdSegs) : IsCandidate(cwdSegs[i])

LastCandidate ==
    IF HasCandidate
    THEN cwdSegs[CHOOSE i \in 1..Len(cwdSegs) :
                     /\ IsCandidate(cwdSegs[i])
                     /\ \A j \in (i + 1)..Len(cwdSegs) : ~IsCandidate(cwdSegs[j])]
    ELSE <<>>

ExpectedArchive ==
    LastCandidate \o <<".", "t", "g", "z">>

ExpectedMessage ==
    MsgPrefix \o ExpectedArchive \o MsgSuffix

IsDfyName(n) ==
    /\ Len(n) >= 4
    /\ SubSeq(n, Len(n) - 3, Len(n)) = <<".", "d", "f", "y">>
    /\ n[1] # "."

DfyListing ==
    {n \in entries \cup DOMAIN archives : IsDfyName(n)}

NoSeparator(s) ==
    \A i \in 1..Len(s) : s[i] # "/"

ChapterAssigned ==
    \/ pc \in {"l22", "l24", "l24wait", "l25", "end"}
    \/ pc = "exited" /\ candidates # <<>>

OperandSet ==
    {cmd[i] : i \in 4..Len(cmd)}

\* C1: whenever some directory name on the way to the working directory
\* contains "chapter" or "project", the derived name is the last such name,
\* however many there are, and the archive name handed to tar is that name
\* followed by ".tgz".
C1_DerivedNameIsLastMatch ==
    (HasCandidate /\ pc \notin {"l12", "l14"}) =>
        /\ chapter = LastCandidate
        /\ pc # "l22" =>
              /\ package_name = ExpectedArchive
              /\ Len(cmd) >= 3
              /\ cmd[1] = ArgTar
              /\ cmd[2] = ArgCzf
              /\ cmd[3] = ExpectedArchive

C1_Witness ==
    /\ pc = "l24wait"
    /\ Len(cwdSegs) = 2
    /\ IsCandidate(cwdSegs[1])
    /\ IsCandidate(cwdSegs[2])
    /\ cwdSegs[1] # cwdSegs[2]
    /\ cmd[3] = cwdSegs[2] \o TgzSuffix

\* C2: when no directory name contains "chapter" or "project", the run never
\* starts tar, writes nothing to standard output and leaves no archive, and
\* it ends with the fixed diagnostic on the error stream and a non-zero
\* status.
C2_NoMatchFails ==
    ~HasCandidate =>
        /\ spawned = 0
        /\ child = "none"
        /\ stdout = <<>>
        /\ cmd = <<>>
        /\ DOMAIN archives = {}
        /\ pc = "exited" =>
              /\ stderr = <<Diagnostic>>
              /\ uncaught = "none"
              /\ Len(exitStatus) = 1
              /\ exitStatus[1] \in 1..255

C2_Witness ==
    /\ pc = "exited"
    /\ ~HasCandidate
    /\ Len(cwdSegs) = 2
    /\ SegLab3 = cwdSegs[Len(cwdSegs)]
    /\ FileA \in entries
    /\ stderr = <<Diagnostic>>
    /\ exitStatus = <<255>>

\* C3 as stated, on the runs where tar exited with status 0: the members of
\* the archive are exactly the entries of the working directory matching
\* *.dfy.
C3_Original ==
    (pc = "exited" /\ HasCandidate /\ childStatus = <<0>>) =>
        /\ package_name \in DOMAIN archives
        /\ archives[package_name].members = DfyListing

\* C3 amended: the operands handed to tar are exactly the entries that match
\* *.dfy (names ending in ".dfy" that do not start with "."), each once; when
\* no matched name starts with "-" and tar exits with status 0, the archive
\* holds every matched entry, and any other member lies below a matched entry
\* that is a directory; it holds exactly the matched entries when none of
\* them is a directory.
C3_OperandsAreGlobMatches ==
    (HasCandidate /\ pc \notin {"l12", "l14", "l22"}) =>
        /\ OperandSet = DfyListing
        /\ Len(cmd) = 3 + Cardinality(DfyListing)
        /\ (childStatus = <<0>> /\ \A n \in DfyListing : n[1] # "-") =>
              /\ package_name \in DOMAIN archives
              /\ archives[package_name].complete
              /\ LET members == archives[package_name].members
                 IN /\ \A n \in DfyListing :
                          IF IsDir(n) THEN (n \o <<"/">>) \in members
                                      ELSE n \in members
                    /\ \A m \in members :
                          \/ m \in DfyListing
                          \/ \E n \in DfyListing :
                                /\ IsDir(n)
                                /\ Len(m) > Len(n)
                                /\ SubSeq(m, 1, Len(n) + 1) = n \o <<"/">>
                    /\ (\A n \in DfyListing : ~IsDir(n)) => members = DfyListing

C3_Witness ==
    /\ pc = "exited"
    /\ childStatus = <<0>>
    /\ entries = {FileA, FileHidden, FileNotes, DirD}
    /\ archives[package_name].members = {FileA, DirD \o <<"/">>, DirD \o <<"/">> \o ChildX}

\* C4 as stated, on the runs where tar was started: with no entry matching
\* *.dfy the archive is still produced and has no members.
C4_Original ==
    (pc = "exited" /\ HasCandidate /\ DfyListing = {} /\ spawned = 1) =>
        /\ package_name \in DOMAIN archives
        /\ archives[package_name].members = {}

\* C4 amended: with no entry matching *.dfy and a name derived, tar is still
\* invoked, with an empty member list, and once it has been started the
\* success line is printed and the status is 0; but tar refuses to create an
\* empty archive, exits with a non-zero status and leaves no archive.
C4_EmptyListStillInvoked ==
    (HasCandidate /\ DfyListing = {} /\ pc \notin {"l12", "l14", "l22"}) =>
        /\ cmd = <<ArgTar, ArgCzf, ExpectedArchive>>
        /\ child = "exited" =>
              /\ Len(childStatus) = 1
              /\ childStatus[1] # 0
              /\ ExpectedArchive \notin DOMAIN archives
        /\ (pc = "exited" /\ spawned = 1) =>
              /\ stdout = <<ExpectedMessage>>
              /\ exitStatus = <<0>>

C4_Witness ==
    /\ pc = "exited"
    /\ HasCandidate
    /\ entries = {FileNotes, FileHidden}
    /\ spawned = 1
    /\ childStatus = <<2>>
    /\ stdout = <<ExpectedMessage>>
    /\ DOMAIN archives = {}

SuccessOutcome ==
    /\ stdout = <<ExpectedMessage>>
    /\ stderr = <<>>

DiagnosticOutcome ==
    /\ stderr = <<Diagnostic>>
    /\ Len(exitStatus) = 1
    /\ exitStatus[1] # 0
    /\ stdout = <<>>

UncaughtOutcome ==
    /\ uncaught = "OSError"
    /\ exitStatus = <<1>>
    /\ stdout = <<>>
    /\ stderr = <<>>
    /\ spawned = 0

\* C5 as stated: every terminated run shows either the success line on
\* standard output and nothing from the script on the error stream, or the
\* diagnostic on the error stream with a non-zero status and nothing on
\* standard output; never both, never neither, also when tar cannot be
\* started.
C5_Original ==
    pc = "exited" =>
        /\ HasCandidate => SuccessOutcome
        /\ ~HasCandidate => DiagnosticOutcome
        /\ SuccessOutcome \/ DiagnosticOutcome
        /\ ~(SuccessOutcome /\ DiagnosticOutcome)

\* C5 amended: every terminated run shows exactly one of three outcomes: the
\* success line on standard output, nothing from the script on the error
\* stream and status 0; the diagnostic on the error stream, nothing on
\* standard output and a non-zero status; or, when tar cannot be started, the
\* uncaught OSError with status 1, nothing on standard output and no
\* diagnostic.
C5_ThreeOutcomes ==
    pc = "exited" =>
        LET success == SuccessOutcome /\ uncaught = "none" /\ exitStatus = <<0>>
            diagnostic == DiagnosticOutcome /\ uncaught = "none"
        IN /\ success \/ diagnostic \/ UncaughtOutcome
           /\ ~(success /\ diagnostic)
           /\ ~(success /\ UncaughtOutcome)
           /\ ~(diagnostic /\ UncaughtOutcome)
           /\ diagnostic <=> ~HasCandidate
           /\ success <=> (HasCandidate /\ spawned = 1)

C5_Witness ==
    /\ pc = "exited"
    /\ UncaughtOutcome
    /\ HasCandidate
    /\ FileA \in entries

\* C6 as stated: whenever a name is derived, the run prints the success line
\* and exits with status 0.
C6_Original ==
    (pc = "exited" /\ HasCandidate) =>
        /\ stdout = <<ExpectedMessage>>
        /\ exitStatus = <<0>>

\* C6 amended: whenever a name is derived and tar has been started, the run
\* prints the success line and exits with status 0 whatever status tar exits
\* with; when tar cannot be started the run ends with the uncaught exception,
\* status 1 and no success line.
C6_TarStatusIgnored ==
    (pc = "exited" /\ HasCandidate) =>
        IF spawned = 1
        THEN /\ Len(childStatus) = 1
             /\ stdout = <<ExpectedMessage>>
             /\ exitStatus = <<0>>
        ELSE /\ spawned = 0
             /\ uncaught = "OSError"
             /\ stdout = <<>>
             /\ exitStatus = <<1>>

C6_Witness ==
    /\ pc = "exited"
    /\ HasCandidate
    /\ FileA \in entries
    /\ FileDash \notin entries
    /\ childStatus = <<2>>
    /\ stdout = <<ExpectedMessage>>
    /\ exitStatus = <<0>>

\* C7: a second run in the same directory hands tar the same member set as
\* the first, the archive of the first run is never among them, and when
\* both runs of tar succeed the archive is replaced by one with the same
\* members, none of which is the archive itself.
C7_Idempotent ==
    (prev # <<>> /\ prev[1].derived /\ pc \notin {"l12", "l14", "l22"}) =>
        /\ HasCandidate
        /\ OperandSet = prev[1].operands
        /\ ExpectedArchive \notin OperandSet
        /\ (prev[1].tarOk /\ childStatus = <<0>>) =>
              /\ prev[1].content # <<>>
              /\ archives[ExpectedArchive] = prev[1].content[1]
              /\ ExpectedArchive \notin archives[ExpectedArchive].members
              /\ archives[ExpectedArchive].members \cap DOMAIN archives = {}

C7_Witness ==
    /\ runs = 2
    /\ pc = "exited"
    /\ prev # <<>>
    /\ prev[1].tarOk
    /\ childStatus = <<0>>
    /\ ExpectedArchive \in DOMAIN archives
    /\ archives[ExpectedArchive].members = {FileA}

\* C8 as stated: every run that derives a name spawns exactly one archiving
\* process, and the success line is written only after it has completed.
C8_Original ==
    /\ (pc = "exited" /\ HasCandidate) => spawned = 1
    /\ stdout # <<>> => child = "exited"

\* C8 amended: a run spawns at most one archiving process, and exactly one
\* unless tar cannot be started (then none, and nothing is printed); the
\* success line is written only after that process has completed.
C8_PrintAfterCompletion ==
    /\ spawned \in {0, 1}
    /\ stdout # <<>> =>
          /\ spawned = 1
          /\ child = "exited"
          /\ childStatus # <<>>
    /\ child = "running" => pc = "l24wait"
    /\ (pc = "exited" /\ HasCandidate) =>
          \/ spawned = 1
          \/ spawned = 0 /\ uncaught = "OSError" /\ stdout = <<>>

C8_Witness ==
    /\ pc = "end"
    /\ stdout = <<ExpectedMessage>>
    /\ spawned = 1
    /\ childStatus = <<0>>
    /\ ExpectedArchive \in DOMAIN archives

\* C9: a directory name is a candidate exactly when "chapter" or "project"
\* occurs in it at some position; "projector" and "my-chapter3-old" are
\* selected when they are the last candidate, and a name with neither
\* substring, such as "lab3", is never selected.
C9_SubstringContainment ==
    pc \notin {"l12", "l14"} =>
        /\ candidates = SelectSeq(cwdSegs, IsCandidate)
        /\ chapter # SegLab3
        /\ chapter # SegChapt
        /\ \A i \in 1..Len(cwdSegs) :
              (/\ cwdSegs[i] \in {SegProjector, SegMyChapter3Old}
               /\ \A j \in (i + 1)..Len(cwdSegs) : cwdSegs[j] \in {SegLab3, SegChapt})
              => chapter = cwdSegs[i]

C9_Witness ==
    /\ pc = "l22"
    /\ cwdSegs = <<SegMyChapter3Old, SegLab3>>
    /\ chapter = SegMyChapter3Old

\* C10: on every run that reaches the archiving step the derived name is
\* non-empty and has no path separator, so the archive path is a bare file
\* name in the working directory.
C10_BareFileName ==
    /\ ChapterAssigned =>
          /\ chapter # <<>>
          /\ NoSeparator(chapter)
    /\ cmd # <<>> =>
          /\ Len(cmd) >= 3
          /\ Len(cmd[3]) > Len(TgzSuffix)
          /\ NoSeparator(cmd[3])
          /\ cmd[3] # <<".", ".">>
    /\ \A a \in DOMAIN archives : a # <<>> /\ NoSeparator(a)

C10_Witness ==
    /\ pc = "exited"
    /\ Len(cwdSegs) = 2
    /\ ExpectedArchive \in DOMAIN archives
    /\ NoSeparator(ExpectedArchive)

====
